---------------------------- MODULE Spec2Model ----------------------------
(***************************************************************************)
(* Reversi with the "return one piece" rule, in its three variants:        *)
(*   "test"  : src/test.py   clock + extensions, automatic random return   *)
(*   "test2" : src/test2.py  clock + extensions, return chosen by a click  *)
(*   "test3" : src/test3.py  no clock, return chosen by a click, random AI *)
(*             playing O from a delayed callback                           *)
(* The program is a Tk event loop: every handler runs to completion, so    *)
(* each handler is one atomic action.  Handlers are written as operators   *)
(* from a state record to a state record, in the order of the statements   *)
(* of the source; the actions apply them to the variables.                 *)
(***************************************************************************)
EXTENDS Integers, Sequences, FiniteSets, TLC

VARIABLES
    variant,         \* which source file runs
    board,           \* ReversiGame.board, a function from (row, col) to ".", "X", "O"
    current_player,  \* ReversiGame.current_player
    extensions,      \* ReversiGame.extensions (clocked variants)
    time_left,       \* ReversiGUI.time_left (clocked variants)
    timer_label,     \* the seconds shown by ReversiGUI.timer_label
    timer_id,        \* ReversiGUI.timer_id: "None", "live" (names a scheduled
                     \* callback) or "stale" (names one that has already fired)
    ticks_pending,   \* number of tick callbacks scheduled with root.after
    pending_return,  \* ReversiGUI.pending_return: the flip list, <<>> for None
    return_origin,   \* ReversiGUI.return_origin: the placed cell, <<>> for None
    binding,         \* the handler bound to <Button-1> on the canvas
    ai_pending,      \* number of ai_move callbacks scheduled with root.after
    vs_ai,           \* the "vs AI" check box (test3)
    finished,        \* finish_game has shown the end-of-game dialog
    log,             \* the lines log_move wrote in the last handler that wrote any
    elapsed          \* ticks fired since the turn started (bounds the clock)

vars == << variant, board, current_player, extensions, time_left, timer_label,
           timer_id, ticks_pending, pending_return, return_origin, binding,
           ai_pending, vs_ai, finished, log, elapsed >>

---------------------------------------------------------------------------
(* Program constants *)

BOARD_SIZE == 8
TURN_SECONDS == 60
MAX_SECONDS == 120
INITIAL_EXTENSIONS == 3
RETURN_THRESHOLD == 3

(* Bounds of the model *)

\* The mouse clicks that reach the handlers fall on the first NumClickCells
\* cells of ClickOrder (and on the two positions outside the board).
NumClickCells == 15
\* In test3 the AI may play anywhere, so the game is cut after this many
\* pieces have been added to the four initial ones.
MaxAiGamePieces == 6
\* Seconds the clock is followed within one turn.
MaxTicks == 1
\* Presses of the extension button that are followed in one game.
MaxExtensionUses == 1
\* The clock and the extension button are followed while fewer than this
\* many pieces have been added to the four initial ones; after that the
\* players click before the next second passes.
MaxClockPieces == 2
\* The clicks of the clock specification fall on this many cells.
NumClockClickCells == 8
\* The seconds of a turn are followed while at most this many pieces have
\* been added to the four initial ones.
MaxWatchedPieces == 0
\* The boards game_over is tried on vary over this many cells.
NumSampleCells == 6

Rows == 0 .. (BOARD_SIZE - 1)
Cells == Rows \X Rows
Players == {"X", "O"}
None == << >>

---------------------------------------------------------------------------
(* ReversiGame *)

opponent(player) == IF player = "X" THEN "O" ELSE "X"

inside(r, c) == 0 <= r /\ r < BOARD_SIZE /\ 0 <= c /\ c < BOARD_SIZE

EmptyBoard == [rc \in Cells |-> "."]

\* Faulty init_board: the colours of the four centre cells are exchanged.
init_board_swapped(b) ==
    [b EXCEPT ![<<3, 3>>] = "O", ![<<4, 4>>] = "O",
              ![<<3, 4>>] = "X", ![<<4, 3>>] = "X"]

init_board(b) ==
    [b EXCEPT ![<<3, 3>>] = "X", ![<<4, 4>>] = "X",
              ![<<3, 4>>] = "O", ![<<4, 3>>] = "O"]

\* Faulty get_flips: the direction (1, 1) is missing.
directions_without_down_right ==
    << <<-1, 0>>, <<1, 0>>, <<0, -1>>, <<0, 1>>,
       <<-1, -1>>, <<-1, 1>>, <<1, -1>> >>

directions ==
    << <<-1, 0>>, <<1, 0>>, <<0, -1>>, <<0, 1>>,
       <<-1, -1>>, <<-1, 1>>, <<1, -1>>, <<1, 1>> >>

\* The while loop of get_flips: the cells collected from (x, y) on, in
\* direction (dr, dc), while they are inside the board and hold opp.
RECURSIVE collect(_, _, _, _, _, _)
collect(b, opp, x, y, dr, dc) ==
    IF inside(x, y) /\ b[<<x, y>>] = opp
    THEN << <<x, y>> >> \o collect(b, opp, x + dr, y + dc, dr, dc)
    ELSE << >>

\* Faulty get_flips: a run of opponent pieces counts whether or not a piece
\* of the player closes it.
direction_flips_unclosed(b, player, r, c, d) ==
    LET x0 == r + d[1]
        y0 == c + d[2]
    IN  IF ~inside(x0, y0) \/ b[<<x0, y0>>] # opponent(player)
        THEN << >>
        ELSE collect(b, opponent(player), x0, y0, d[1], d[2])

\* One iteration of the for loop of get_flips: what direction d adds to
\* flips_total.
direction_flips(b, player, r, c, d) ==
    LET opp == opponent(player)
        dr == d[1]
        dc == d[2]
        x0 == r + dr
        y0 == c + dc
    IN  IF ~inside(x0, y0) \/ b[<<x0, y0>>] # opp
        THEN << >>
        ELSE LET flips == collect(b, opp, x0, y0, dr, dc)
                 x == x0 + Len(flips) * dr
                 y == y0 + Len(flips) * dc
             IN  IF inside(x, y) /\ b[<<x, y>>] = player /\ flips # << >>
                 THEN flips
                 ELSE << >>

RECURSIVE flips_from(_, _, _, _, _)
flips_from(b, player, r, c, i) ==
    IF i > Len(directions)
    THEN << >>
    ELSE direction_flips(b, player, r, c, directions[i])
             \o flips_from(b, player, r, c, i + 1)

get_flips(b, player, r, c) == flips_from(b, player, r, c, 1)

\* The list of the source, as the set of its members (the code uses its
\* emptiness, membership and a uniform random choice among its members).
get_valid_moves(b, player) ==
    {rc \in Cells : b[rc] = "." /\ get_flips(b, player, rc[1], rc[2]) # << >>}

\* The truth value of a list in the source: "not moves".
is_empty(S) == ~\E x \in S : TRUE

Range(seq) == {seq[i] : i \in 1 .. Len(seq)}

\* Faulty make_move: the opponent's pieces are flipped but the piece itself
\* is not placed.
place_and_flip_flips_only(b, player, r, c, flips) ==
    [rc \in Cells |-> IF rc \in {flips[i] : i \in 1 .. Len(flips)} THEN player ELSE b[rc]]

\* The board after placement and flips.
place_and_flip(b, player, r, c, flips) ==
    [rc \in Cells |->
        IF rc = <<r, c>> \/ rc \in Range(flips) THEN player ELSE b[rc]]

\* make_move of test2.py and test3.py: [board, flips]; flips = << >> stands
\* for the None of an illegal move, which writes nothing.
make_move(b, player, r, c) ==
    LET flips == get_flips(b, player, r, c)
    IN  IF flips = << >>
        THEN [board |-> b, flips |-> << >>, return_pos |-> None]
        ELSE [board |-> place_and_flip(b, player, r, c, flips),
              flips |-> flips, return_pos |-> None]

\* Faulty make_move of test.py: a cell is returned after any move.
make_move_return_any_flip(b, player, r, c, k) ==
    LET flips == get_flips(b, player, r, c)
    IN  IF flips = << >>
        THEN [board |-> b, flips |-> << >>, return_pos |-> None]
        ELSE LET b1 == place_and_flip(b, player, r, c, flips)
                 return_pos == flips[IF k <= Len(flips) THEN k ELSE 1]
             IN  [board |-> [b1 EXCEPT ![return_pos] = opponent(player)],
                  flips |-> flips, return_pos |-> return_pos]

\* make_move of test.py: as above, then the return rule; k stands for the
\* draw of random.choice(flips).
make_move_return(b, player, r, c, k) ==
    LET flips == get_flips(b, player, r, c)
    IN  IF flips = << >>
        THEN [board |-> b, flips |-> << >>, return_pos |-> None]
        ELSE LET b1 == place_and_flip(b, player, r, c, flips)
             IN  IF Len(flips) >= RETURN_THRESHOLD
                 THEN LET return_pos == flips[k]
                      IN  [board |-> [b1 EXCEPT ![return_pos] = opponent(player)],
                           flips |-> flips, return_pos |-> return_pos]
                 ELSE [board |-> b1, flips |-> flips, return_pos |-> None]

count(b, player) == Cardinality({rc \in Cells : b[rc] = player})

count_pieces(b) == << count(b, "X"), count(b, "O") >>

\* Faulty game_over: one side without a legal move is taken for the end.
game_over_either_side_stuck(b) ==
    \/ \A rc \in Cells : b[rc] # "."
    \/ count_pieces(b)[1] = 0
    \/ count_pieces(b)[2] = 0
    \/ is_empty(get_valid_moves(b, "X"))
    \/ is_empty(get_valid_moves(b, "O"))

\* Faulty game_over: a board with a single empty cell counts as full.
game_over_one_cell_early(b) ==
    IF Cardinality({rc \in Cells : b[rc] = "."}) <= 1
    THEN TRUE
    ELSE IF is_empty(get_valid_moves(b, "X")) /\ is_empty(get_valid_moves(b, "O"))
         THEN TRUE
         ELSE FALSE

game_over(b) ==
    LET full == \A rc \in Cells : b[rc] # "."
    IN  IF full
        THEN TRUE
        ELSE IF count_pieces(b)[1] = 0 \/ count_pieces(b)[2] = 0
             THEN TRUE
             ELSE IF is_empty(get_valid_moves(b, "X")) /\ is_empty(get_valid_moves(b, "O"))
                  THEN TRUE
                  ELSE FALSE


---------------------------------------------------------------------------
(* ReversiGUI: the state the handlers read and write, as one record *)

State ==
    [variant |-> variant, board |-> board, current_player |-> current_player,
     extensions |-> extensions, time_left |-> time_left,
     timer_label |-> timer_label, timer_id |-> timer_id,
     ticks_pending |-> ticks_pending, pending_return |-> pending_return,
     return_origin |-> return_origin, binding |-> binding,
     ai_pending |-> ai_pending, vs_ai |-> vs_ai, finished |-> finished,
     log |-> log]

clocked(s) == s.variant \in {"test", "test2"}

MoveLine(player, pos, ret) ==
    [txt |-> "move", player |-> player, pos |-> pos, ret |-> ret]

PassLine == [txt |-> "PASS", player |-> "-", pos |-> None, ret |-> None]

log_move(s, line) == [s EXCEPT !.log = Append(s.log, line)]

\* Faulty stop_timer: timer_id is cleared but the callback is not cancelled.
stop_timer_forgets_callback(s) ==
    IF s.timer_id # "None"
    THEN [s EXCEPT !.timer_id = "None"]
    ELSE s

\* stop_timer: cancels the callback timer_id names, if it names one.
stop_timer(s) ==
    IF s.timer_id # "None"
    THEN [s EXCEPT !.timer_id = "None",
                   !.ticks_pending = IF s.timer_id = "live" THEN @ - 1 ELSE @]
    ELSE s

\* Faulty finish_game: the canvas stays bound.
finish_game_stays_bound(s) ==
    LET s1 == IF clocked(s) THEN stop_timer(s) ELSE s
    IN  [s1 EXCEPT !.finished = TRUE]

\* finish_game: test.py and test2.py stop the timer first; all three show
\* the dialog and unbind the canvas.
finish_game(s) ==
    LET s1 == IF clocked(s) THEN stop_timer(s) ELSE s
    IN  [s1 EXCEPT !.finished = TRUE, !.binding = "unbound"]

RECURSIVE tick(_)
RECURSIVE handle_timeout(_)
RECURSIVE switch_player(_)
RECURSIVE start_turn(_)

\* Faulty start_turn: the countdown goes on from where it stood.
start_turn_keeps_time(s) ==
    IF clocked(s)
    THEN tick(s)
    ELSE IF s.current_player = "O" /\ s.vs_ai
         THEN [s EXCEPT !.ai_pending = @ + 1]
         ELSE s

\* start_turn: test.py and test2.py restart the countdown and tick once;
\* test3.py schedules the AI when O is to move and the check box is set.
start_turn(s) ==
    IF clocked(s)
    THEN tick([s EXCEPT !.time_left = TURN_SECONDS])
    ELSE IF s.current_player = "O" /\ s.vs_ai
         THEN [s EXCEPT !.ai_pending = @ + 1]
         ELSE s

tick(s) ==
    LET s1 == [s EXCEPT !.timer_label = s.time_left]
    IN  IF s1.time_left = 0
        THEN handle_timeout(s1)
        ELSE [s1 EXCEPT !.time_left = @ - 1,
                        !.timer_id = "live",
                        !.ticks_pending = @ + 1]

\* Faulty handle_timeout: the turn is passed whatever the budget.
handle_timeout_always_passes(s) == switch_player(log_move(s, PassLine))

\* Faulty handle_timeout: with no budget left PASS is logged but the same
\* side starts a new turn.
handle_timeout_keeps_turn(s) ==
    LET player == s.current_player
    IN  IF s.extensions[player] > 0
        THEN tick([s EXCEPT !.extensions[player] = @ - 1,
                            !.time_left = TURN_SECONDS])
        ELSE start_turn(log_move(s, PassLine))

handle_timeout(s) ==
    LET player == s.current_player
    IN  IF s.extensions[player] > 0
        THEN tick([s EXCEPT !.extensions[player] = @ - 1,
                            !.time_left = TURN_SECONDS])
        ELSE switch_player(log_move(s, PassLine))

\* Faulty switch_player: a single pass ends the game.
switch_player_pass_ends_game(s) ==
    LET s1 == [s EXCEPT !.current_player = opponent(s.current_player)]
    IN  IF ~is_empty(get_valid_moves(s1.board, s1.current_player))
        THEN start_turn(s1)
        ELSE finish_game(log_move(s1, PassLine))

\* Faulty switch_player: the turn of the other side is started without a look
\* at its legal moves.
switch_player_starts_unchecked(s) ==
    start_turn([s EXCEPT !.current_player = opponent(s.current_player)])

switch_player(s) ==
    LET s1 == [s EXCEPT !.current_player = opponent(s.current_player)]
    IN  IF ~is_empty(get_valid_moves(s1.board, s1.current_player))
        THEN start_turn(s1)
        ELSE LET s2 == log_move(s1, PassLine)
                 s3 == [s2 EXCEPT !.current_player = opponent(s2.current_player)]
             IN  IF is_empty(get_valid_moves(s3.board, s3.current_player))
                 THEN finish_game(s3)
                 ELSE start_turn(s3)

\* Faulty use_extension: the budget is not tested.
use_extension_ignores_budget(s) ==
    LET player == s.current_player
    IN  IF s.time_left >= MAX_SECONDS
        THEN s
        ELSE LET t == s.time_left + TURN_SECONDS
             IN  [s EXCEPT !.extensions[player] = @ - 1,
                           !.time_left = IF t > MAX_SECONDS THEN MAX_SECONDS ELSE t]

\* Faulty use_extension: the sum is not capped.
use_extension_uncapped(s) ==
    LET player == s.current_player
    IN  IF s.extensions[player] = 0 \/ s.time_left >= MAX_SECONDS
        THEN s
        ELSE [s EXCEPT !.extensions[player] = @ - 1,
                       !.time_left = @ + TURN_SECONDS]

use_extension(s) ==
    LET player == s.current_player
    IN  IF s.extensions[player] = 0 \/ s.time_left >= MAX_SECONDS
        THEN s
        ELSE LET t == s.time_left + TURN_SECONDS
             IN  [s EXCEPT !.extensions[player] = @ - 1,
                           !.time_left = IF t > MAX_SECONDS THEN MAX_SECONDS ELSE t]

\* Faulty end of move: game_over is not consulted.
end_of_move_always_switches(s) == switch_player(s)

\* The end of handle_click, handle_return_click and ai_move.
end_of_move(s) ==
    IF game_over(s.board) THEN finish_game(s) ELSE switch_player(s)

\* handle_click of test.py; k is the draw of random.choice in make_move.
handle_click_test(s, row, col, k) ==
    IF ~(0 <= row /\ row < BOARD_SIZE /\ 0 <= col /\ col < BOARD_SIZE)
    THEN s
    ELSE IF <<row, col>> \notin get_valid_moves(s.board, s.current_player)
    THEN s
    ELSE LET s1 == stop_timer(s)
             m  == make_move_return(s1.board, s1.current_player, row, col, k)
             s2 == [s1 EXCEPT !.board = m.board]
             s3 == log_move(s2, MoveLine(s2.current_player, <<row, col>>, m.return_pos))
         IN  end_of_move(s3)

\* handle_click of test2.py.
handle_click_test2(s, row, col) ==
    IF s.pending_return # None
    THEN s
    ELSE IF ~(0 <= row /\ row < BOARD_SIZE /\ 0 <= col /\ col < BOARD_SIZE)
    THEN s
    ELSE IF <<row, col>> \notin get_valid_moves(s.board, s.current_player)
    THEN s
    ELSE LET s1 == stop_timer(s)
             m  == make_move(s1.board, s1.current_player, row, col)
             s2 == [s1 EXCEPT !.board = m.board]
         IN  IF Len(m.flips) >= RETURN_THRESHOLD
             THEN [s2 EXCEPT !.pending_return = m.flips,
                             !.return_origin = <<row, col>>,
                             !.binding = "handle_return_click"]
             ELSE end_of_move(
                      log_move(s2, MoveLine(s2.current_player, <<row, col>>, None)))

\* handle_click of test3.py: the mover is always "X".
handle_click_test3(s, row, col) ==
    IF s.pending_return # None
    THEN s
    ELSE IF ~(0 <= row /\ row < BOARD_SIZE /\ 0 <= col /\ col < BOARD_SIZE)
    THEN s
    ELSE IF <<row, col>> \notin get_valid_moves(s.board, "X")
    THEN s
    ELSE LET m  == make_move(s.board, "X", row, col)
             s2 == [s EXCEPT !.board = m.board]
         IN  IF Len(m.flips) >= RETURN_THRESHOLD
             THEN [s2 EXCEPT !.pending_return = m.flips,
                             !.return_origin = <<row, col>>,
                             !.binding = "handle_return_click"]
             ELSE end_of_move(log_move(s2, MoveLine("X", <<row, col>>, None)))

\* Faulty handle_click: the countdown is cancelled before the click is
\* validated.
handle_click_stops_first(s, row, col, k) ==
    IF s.variant = "test" THEN handle_click_test(stop_timer(s), row, col, k)
    ELSE IF s.variant = "test2" THEN handle_click_test2(stop_timer(s), row, col)
    ELSE handle_click_test3(s, row, col)

handle_click(s, row, col, k) ==
    IF s.variant = "test" THEN handle_click_test(s, row, col, k)
    ELSE IF s.variant = "test2" THEN handle_click_test2(s, row, col)
    ELSE handle_click_test3(s, row, col)

\* The player whose piece handle_return_click gives the cell back to:
\* opponent(current_player) in test2.py, opponent("X") in test3.py.
return_mover(s) == IF s.variant = "test3" THEN "X" ELSE s.current_player

\* Faulty handle_return_click: the pending return is not cleared.
handle_return_click_keeps_pending(s, row, col) ==
    IF <<row, col>> \notin Range(s.pending_return)
    THEN s
    ELSE LET s1 == [s EXCEPT !.board[<<row, col>>] = opponent(return_mover(s))]
             s2 == log_move(s1, MoveLine(return_mover(s), s.return_origin, <<row, col>>))
         IN  end_of_move([s2 EXCEPT !.binding = "handle_click"])

\* Faulty handle_return_click: the selected cell is emptied instead of given
\* back.
handle_return_click_clears_cell(s, row, col) ==
    IF <<row, col>> \notin Range(s.pending_return)
    THEN s
    ELSE LET s1 == [s EXCEPT !.board[<<row, col>>] = "."]
             s2 == log_move(s1, MoveLine(return_mover(s), s.return_origin, <<row, col>>))
             s3 == [s2 EXCEPT !.pending_return = None,
                              !.return_origin = None,
                              !.binding = "handle_click"]
         IN  end_of_move(s3)

\* handle_return_click of test2.py and test3.py.
handle_return_click(s, row, col) ==
    IF <<row, col>> \notin Range(s.pending_return)
    THEN s
    ELSE LET s1 == [s EXCEPT !.board[<<row, col>>] = opponent(return_mover(s))]
             s2 == log_move(s1, MoveLine(return_mover(s), s.return_origin, <<row, col>>))
             s3 == [s2 EXCEPT !.pending_return = None,
                              !.return_origin = None,
                              !.binding = "handle_click"]
         IN  end_of_move(s3)

\* Faulty ai_move: the list of moves is not tested before a move is made.
ai_move_plays_when_stuck(s, mv, k) ==
    LET m  == make_move(s.board, "O", mv[1], mv[2])
        s1 == [s EXCEPT !.board = m.board]
        s2 == IF Len(m.flips) >= RETURN_THRESHOLD
              THEN log_move([s1 EXCEPT !.board[m.flips[k]] = "X"],
                            MoveLine("O", mv, m.flips[k]))
              ELSE log_move(s1, MoveLine("O", mv, None))
    IN  end_of_move(s2)

\* ai_move of test3.py; mv is the draw of random.choice(moves), k that of
\* random.choice(flips).
ai_move(s, mv, k) ==
    LET moves == get_valid_moves(s.board, "O")
    IN  IF is_empty(moves)
        THEN switch_player(log_move(s, PassLine))
        ELSE LET m  == make_move(s.board, "O", mv[1], mv[2])
                 s1 == [s EXCEPT !.board = m.board]
                 s2 == IF Len(m.flips) >= RETURN_THRESHOLD
                       THEN log_move([s1 EXCEPT !.board[m.flips[k]] = "X"],
                                     MoveLine("O", mv, m.flips[k]))
                       ELSE log_move(s1, MoveLine("O", mv, None))
             IN  end_of_move(s2)

---------------------------------------------------------------------------
(* The state after construction: ReversiGame.__init__, then the fields set *)
(* by ReversiGUI.__init__, then its call of start_turn.  test3.py has no   *)
(* clock and no extensions: those fields are held at 0 there.              *)

Constructed(v) ==
    [variant |-> v,
     board |-> init_board(EmptyBoard),
     current_player |-> "X",
     extensions |-> IF v = "test3" THEN [p \in Players |-> 0]
                    ELSE [p \in Players |-> INITIAL_EXTENSIONS],
     time_left |-> IF v = "test3" THEN 0 ELSE TURN_SECONDS,
     timer_label |-> 0,
     timer_id |-> "None",
     ticks_pending |-> 0,
     pending_return |-> None,
     return_origin |-> None,
     binding |-> "handle_click",
     ai_pending |-> 0,
     vs_ai |-> (v = "test3"),
     finished |-> FALSE,
     log |-> << >>]

Variants == {"test", "test2", "test3"}

\* The variables take the values of record s; the clock bound counts the
\* ticks fired since the countdown last restarted.
Becomes(result, fired) ==
  \E s \in {result} :
    /\ variant' = s.variant
    /\ board' = s.board
    /\ current_player' = s.current_player
    /\ extensions' = s.extensions
    /\ time_left' = s.time_left
    /\ timer_label' = s.timer_label
    /\ timer_id' = s.timer_id
    /\ ticks_pending' = s.ticks_pending
    /\ pending_return' = s.pending_return
    /\ return_origin' = s.return_origin
    /\ binding' = s.binding
    /\ ai_pending' = s.ai_pending
    /\ vs_ai' = s.vs_ai
    /\ finished' = s.finished
    /\ log' = IF s.log = << >> THEN log ELSE s.log
    /\ elapsed' = IF s.timer_label = TURN_SECONDS THEN 0 ELSE elapsed + fired

StartsAs(s) ==
    /\ variant = s.variant
    /\ board = s.board
    /\ current_player = s.current_player
    /\ extensions = s.extensions
    /\ time_left = s.time_left
    /\ timer_label = s.timer_label
    /\ timer_id = s.timer_id
    /\ ticks_pending = s.ticks_pending
    /\ pending_return = s.pending_return
    /\ return_origin = s.return_origin
    /\ binding = s.binding
    /\ ai_pending = s.ai_pending
    /\ vs_ai = s.vs_ai
    /\ finished = s.finished
    /\ log = s.log
    /\ elapsed = 0

\* ReversiGUI.__init__ ends with start_turn().
InitOf(v) == StartsAs(start_turn(Constructed(v)))

Init == \E v \in Variants : InitOf(v)

\* The state a handler starts from; what it appends to the log replaces the
\* lines of the handler before it.
Entry == [State EXCEPT !.log = << >>]

\* The cells the mouse is clicked on, in the order the bound admits them.
ClickOrder ==
    << <<2, 4>>, <<2, 5>>, <<2, 6>>, <<2, 3>>, <<5, 2>>, <<1, 5>>, <<2, 2>>,
       <<1, 1>>, <<0, 0>>, <<5, 5>>, <<6, 6>>, <<7, 7>>, <<0, 4>>, <<3, 3>>,
       <<2, 7>>, <<3, 4>>, <<4, 3>>, <<4, 4>> >>

ClickCells == {ClickOrder[i] : i \in 1 .. NumClickCells}

\* event.x // CELL_SIZE and event.y // CELL_SIZE also fall outside the board
\* on the border of the canvas.
OffBoard == {<<-1, 0>>, <<BOARD_SIZE, BOARD_SIZE>>}

Clicks == ClickCells \cup OffBoard

pieces(b) == Cardinality({rc \in Cells : b[rc] # "."})

\* The draws random.choice can make from the flips of a move.
Draws(b, player, rc) ==
    LET n == IF inside(rc[1], rc[2]) THEN Len(get_flips(b, player, rc[1], rc[2])) ELSE 0
    IN  IF n >= RETURN_THRESHOLD THEN 1 .. n ELSE {1}

\* The AI game is followed up to MaxAiGamePieces added pieces.
WithinGame == variant = "test3" => pieces(board) < 4 + MaxAiGamePieces

\* <Button-1> on the canvas while handle_click is bound.
HandleClick ==
    /\ binding = "handle_click"
    /\ WithinGame
    /\ \E rc \in Clicks :
         \E k \in (IF variant = "test" THEN Draws(board, current_player, rc) ELSE {1}) :
            Becomes(handle_click(Entry, rc[1], rc[2], k), 0)

\* <Button-1> on the canvas while handle_return_click is bound.
HandleReturnClick ==
    /\ binding = "handle_return_click"
    /\ \E rc \in Clicks : Becomes(handle_return_click(Entry, rc[1], rc[2]), 0)

\* A scheduled tick callback fires.  It is the one timer_id names unless an
\* older one is also pending.
TickOf(fired) ==
    /\ ticks_pending > 0
    /\ \E named \in {t \in BOOLEAN :
                       /\ t => timer_id = "live"
                       /\ ~t => (timer_id # "live" \/ ticks_pending > 1)} :
          Becomes(tick([Entry EXCEPT !.ticks_pending = @ - 1,
                                     !.timer_id = IF named THEN "stale" ELSE @]),
                  fired)

Tick == TickOf(1)

\* The extension button (test.py, test2.py).
UseExtension ==
    /\ variant \in {"test", "test2"}
    /\ Becomes(use_extension(Entry), 0)

\* A scheduled ai_move callback fires (test3.py).
AiMove ==
    /\ ai_pending > 0
    /\ LET s == [Entry EXCEPT !.ai_pending = @ - 1]
           moves == get_valid_moves(board, "O")
       IN  IF is_empty(moves)
           THEN Becomes(ai_move(s, <<0, 0>>, 1), 0)
           ELSE /\ WithinGame
                /\ \E mv \in moves : \E k \in Draws(board, "O", mv) :
                       Becomes(ai_move(s, mv, k), 0)

\* The "vs AI" check box is toggled (test3.py).
ToggleVsAi ==
    /\ variant = "test3"
    /\ Becomes([Entry EXCEPT !.vs_ai = ~@], 0)

ExtensionsUsed ==
    IF variant = "test3" THEN 0
    ELSE 2 * INITIAL_EXTENSIONS - (extensions["X"] + extensions["O"])

ClockFollowed == pieces(board) < 4 + MaxClockPieces

\* The whole program: whole games on the cells of ClickCells, with the clock
\* followed for MaxTicks seconds of each of the first turns.
Next ==
    \/ HandleClick
    \/ HandleReturnClick
    \/ (ClockFollowed /\ elapsed < MaxTicks /\ Tick)
    \/ (ClockFollowed /\ ExtensionsUsed < MaxExtensionUses /\ UseExtension)
    \/ AiMove
    \/ ToggleVsAi

Spec == Init /\ [][Next]_vars

---------------------------------------------------------------------------
(* The clock in full: test.py and test2.py with every second of a turn     *)
(* followed, so that the countdown reaches 0, the automatic extensions run *)
(* out and timeouts pass the turn.  The seconds are followed on the        *)
(* opening position (up to MaxWatchedPieces added pieces) and on every     *)
(* position where the side not to move has no legal move; elsewhere the    *)
(* players click within the first second.  The clicks fall on the first    *)
(* NumClockClickCells cells of ClockClickOrder, a line of play that ends   *)
(* with X unable to move.                                                  *)

ClockClickOrder ==
    << <<2, 4>>, <<2, 5>>, <<2, 6>>, <<1, 6>>, <<4, 2>>, <<2, 7>>, <<0, 7>>,
       <<0, 5>>, <<5, 3>>, <<3, 5>> >>

ClockClicks == {ClockClickOrder[i] : i \in 1 .. NumClockClickCells}

ClockWatched ==
    \/ pieces(board) <= 4 + MaxWatchedPieces
    \/ is_empty(get_valid_moves(board, opponent(current_player)))

InitClock == \E v \in {"test", "test2"} : InitOf(v)

ClockClick ==
    /\ binding = "handle_click"
    /\ \E rc \in ClockClicks :
         \E k \in (IF variant = "test" THEN Draws(board, current_player, rc) ELSE {1}) :
            Becomes(handle_click(Entry, rc[1], rc[2], k), 0)

ClockReturnClick ==
    /\ binding = "handle_return_click"
    /\ \E rc \in ClockClicks : Becomes(handle_return_click(Entry, rc[1], rc[2]), 0)

NextClock ==
    \/ ClockClick
    \/ ClockReturnClick
    \/ (ClockWatched /\ TickOf(0))
    \/ (ClockWatched /\ UseExtension)

SpecClock == InitClock /\ [][NextClock]_vars

---------------------------------------------------------------------------
(* game_over as a function of the board alone: a game object is given each *)
(* board of a bounded family, and the end of a move handler (game_over,    *)
(* then finish_game or switch_player) is run on it once.  The family is    *)
(* every filling of the first NumSampleCells cells of SampleOrder over a   *)
(* board that is otherwise empty, all X or all O, so it holds full boards, *)
(* boards without a piece of one colour, boards where one side or both     *)
(* are stuck, and boards with moves along rows, columns and diagonals.     *)

SampleOrder ==
    << <<0, 0>>, <<0, 1>>, <<0, 2>>, <<1, 0>>, <<2, 0>>, <<1, 1>>, <<2, 2>>,
       <<1, 2>>, <<2, 1>> >>

SampleCells == {SampleOrder[i] : i \in 1 .. NumSampleCells}

SampleBoards ==
    {[rc \in Cells |-> IF rc \in SampleCells THEN w[rc] ELSE fill] :
        w \in [SampleCells -> {".", "X", "O"}], fill \in {".", "X", "O"}}

InitBoards ==
    \E b \in SampleBoards : StartsAs([Constructed("test") EXCEPT !.board = b])

EndOfMove ==
    /\ ~finished
    /\ ticks_pending = 0
    /\ Becomes(end_of_move(Entry), 0)

NextBoards == EndOfMove

SpecBoards == InitBoards /\ [][NextBoards]_vars

\* The same on boards that a rotation by 180 degrees leaves unchanged: the
\* upper half of each board of the family and its image in the lower half.
rotate(rc) == <<BOARD_SIZE - 1 - rc[1], BOARD_SIZE - 1 - rc[2]>>

SymmetricBoards ==
    {[rc \in Cells |-> IF 2 * rc[1] < BOARD_SIZE THEN b[rc] ELSE b[rotate(rc)]] :
        b \in SampleBoards}

InitSymmetric ==
    \E b \in SymmetricBoards : StartsAs([Constructed("test") EXCEPT !.board = b])

SpecSymmetric == InitSymmetric /\ [][NextBoards]_vars

---------------------------------------------------------------------------
(* Whole games played to their end by the rules: the clicks, the return    *)
(* selections and the draws of random.choice follow the moves of two       *)
(* recorded games.  FullBoardGame fills the board in 60 moves, with a      *)
(* forced pass before the last one; WipeOutGame leaves O without a piece   *)
(* after 17 moves, the last three by X with forced passes between them.    *)
(* In test3.py X clicks during its own turn and the AI callback draws the  *)
(* recorded moves of O.                                                    *)

FullBoardGame ==
    << MoveLine("X", <<5, 3>>, None),
       MoveLine("O", <<5, 2>>, None),
       MoveLine("X", <<2, 4>>, None),
       MoveLine("O", <<4, 5>>, None),
       MoveLine("X", <<5, 6>>, None),
       MoveLine("O", <<6, 3>>, None),
       MoveLine("X", <<6, 1>>, None),
       MoveLine("O", <<5, 1>>, None),
       MoveLine("X", <<5, 5>>, None),
       MoveLine("O", <<7, 0>>, None),
       MoveLine("X", <<7, 3>>, None),
       MoveLine("O", <<7, 4>>, None),
       MoveLine("X", <<5, 0>>, None),
       MoveLine("O", <<2, 5>>, <<4, 3>>),
       MoveLine("X", <<2, 3>>, None),
       MoveLine("O", <<1, 3>>, <<4, 3>>),
       MoveLine("X", <<5, 4>>, None),
       MoveLine("O", <<6, 7>>, <<3, 4>>),
       MoveLine("X", <<7, 5>>, None),
       MoveLine("O", <<3, 5>>, None),
       MoveLine("X", <<2, 2>>, None),
       MoveLine("O", <<3, 1>>, None),
       MoveLine("X", <<1, 1>>, None),
       MoveLine("O", <<6, 5>>, None),
       MoveLine("X", <<5, 7>>, None),
       MoveLine("O", <<4, 1>>, None),
       MoveLine("X", <<3, 0>>, <<6, 3>>),
       MoveLine("O", <<2, 1>>, None),
       MoveLine("X", <<2, 6>>, None),
       MoveLine("O", <<4, 6>>, None),
       MoveLine("X", <<1, 6>>, None),
       MoveLine("O", <<6, 2>>, None),
       MoveLine("X", <<4, 7>>, <<4, 6>>),
       MoveLine("O", <<3, 7>>, None),
       MoveLine("X", <<4, 0>>, None),
       MoveLine("O", <<3, 6>>, None),
       MoveLine("X", <<6, 4>>, None),
       MoveLine("O", <<1, 4>>, None),
       MoveLine("X", <<0, 3>>, None),
       MoveLine("O", <<6, 6>>, <<5, 6>>),
       MoveLine("X", <<0, 5>>, None),
       MoveLine("O", <<4, 2>>, None),
       MoveLine("X", <<7, 1>>, None),
       MoveLine("O", <<7, 2>>, <<6, 2>>),
       MoveLine("X", <<7, 6>>, None),
       MoveLine("O", <<1, 5>>, None),
       MoveLine("X", <<1, 7>>, <<3, 5>>),
       MoveLine("O", <<0, 7>>, None),
       MoveLine("X", <<3, 2>>, <<6, 5>>),
       MoveLine("O", <<0, 1>>, None),
       MoveLine("X", <<0, 4>>, None),
       MoveLine("O", <<6, 0>>, <<6, 2>>),
       MoveLine("X", <<0, 6>>, None),
       MoveLine("O", <<1, 2>>, None),
       MoveLine("X", <<2, 7>>, None),
       MoveLine("O", <<2, 0>>, <<3, 0>>),
       MoveLine("X", <<0, 0>>, <<2, 2>>),
       MoveLine("O", <<7, 7>>, <<7, 3>>),
       MoveLine("X", <<0, 2>>, <<2, 2>>),
       MoveLine("X", <<1, 0>>, None) >>

WipeOutGame ==
    << MoveLine("X", <<2, 4>>, None),
       MoveLine("O", <<2, 5>>, None),
       MoveLine("X", <<2, 6>>, None),
       MoveLine("O", <<1, 4>>, None),
       MoveLine("X", <<0, 4>>, <<3, 4>>),
       MoveLine("O", <<3, 2>>, None),
       MoveLine("X", <<5, 2>>, None),
       MoveLine("O", <<5, 4>>, None),
       MoveLine("X", <<3, 1>>, None),
       MoveLine("O", <<4, 5>>, None),
       MoveLine("X", <<6, 5>>, None),
       MoveLine("O", <<6, 4>>, None),
       MoveLine("X", <<4, 6>>, None),
       MoveLine("O", <<6, 6>>, None),
       MoveLine("X", <<7, 6>>, None),
       MoveLine("X", <<6, 7>>, None),
       MoveLine("X", <<6, 3>>, None) >>

GameRecords == {FullBoardGame, WipeOutGame}

\* The recorded moves that continue a record from the n-th move on.
RecordEntries(n) == {g[n] : g \in {h \in GameRecords : n <= Len(h)}}

\* <Button-1> on the cell of the next recorded move of the side to move.  In
\* test.py random.choice draws the recorded return.
RecordClick ==
    /\ binding = "handle_click"
    /\ pending_return = None
    /\ variant = "test3" => current_player = "X"
    /\ \E e \in RecordEntries(pieces(board) - 3) :
         /\ e.player = current_player
         /\ \E k \in (IF variant = "test" THEN Draws(board, current_player, e.pos)
                      ELSE {1}) :
              \E r \in {handle_click(Entry, e.pos[1], e.pos[2], k)} :
                 /\ variant = "test" => (r.log # << >> /\ r.log[1].ret = e.ret)
                 /\ Becomes(r, 0)

\* <Button-1> on the recorded return of the move that waits for one.
RecordReturnClick ==
    /\ binding = "handle_return_click"
    /\ \E e \in RecordEntries(pieces(board) - 4) :
         /\ e.pos = return_origin
         /\ e.ret # None
         /\ Becomes(handle_return_click(Entry, e.ret[1], e.ret[2]), 0)

\* The ai_move callback fires and draws the next recorded move of O.
RecordAiMove ==
    /\ ai_pending > 0
    /\ \E e \in RecordEntries(pieces(board) - 3) :
         /\ e.player = "O"
         /\ e.pos \in get_valid_moves(board, "O")
         /\ \E k \in Draws(board, "O", e.pos) :
              \E r \in {ai_move([Entry EXCEPT !.ai_pending = @ - 1], e.pos, k)} :
                 /\ r.log[1].ret = e.ret
                 /\ Becomes(r, 0)

NextRecords ==
    \/ RecordClick
    \/ RecordReturnClick
    \/ RecordAiMove
    \/ (elapsed < MaxTicks /\ Tick)
    \/ (ExtensionsUsed < MaxExtensionUses /\ UseExtension)

SpecRecords == Init /\ [][NextRecords]_vars

---------------------------------------------------------------------------
(* ai_move as a function of the board: the window of test3.py is given     *)
(* each board of the sample family with O to move and the AI switched on,  *)
(* so that start_turn schedules the AI callback, and the callback runs     *)
(* whenever it is scheduled: on boards where O has no legal move, exactly  *)
(* one, or several.                                                        *)

InitAgent ==
    \E b \in SampleBoards :
        StartsAs(start_turn([Constructed("test3") EXCEPT !.board = b,
                                                         !.current_player = "O"]))

\* A scheduled ai_move callback fires, on any board.
AgentMove ==
    /\ ai_pending > 0
    /\ LET s == [Entry EXCEPT !.ai_pending = @ - 1]
           moves == get_valid_moves(board, "O")
       IN  IF is_empty(moves)
           THEN Becomes(ai_move(s, <<0, 0>>, 1), 0)
           ELSE \E mv \in moves : \E k \in Draws(board, "O", mv) :
                    Becomes(ai_move(s, mv, k), 0)

NextAgent == AgentMove

SpecAgent == InitAgent /\ [][NextAgent]_vars

---------------------------------------------------------------------------
(* Properties.  A property about what a handler does is stated over the    *)
(* handler applied to the current state, for every input the event can     *)
(* carry (every cell of the board and the positions outside it), so it is  *)
(* checked in every reachable state and not only along the clicks the      *)
(* bounds follow.                                                          *)

AllClicks == Cells \cup OffBoard

\* The draws of random.choice over a list of n flips.
AllDraws(n) == IF n >= RETURN_THRESHOLD THEN 1 .. n ELSE {1}

\* The results ai_move can have when its callback fires in the current state.
AiResults ==
    LET s == [Entry EXCEPT !.ai_pending = @ - 1]
        moves == get_valid_moves(board, "O")
    IN  IF is_empty(moves)
        THEN {ai_move(s, <<0, 0>>, 1)}
        ELSE UNION {{ai_move(s, mv, k) :
                       k \in AllDraws(Len(get_flips(board, "O", mv[1], mv[2])))} :
                    mv \in moves}

\* The result of a tick callback firing in the current state.
TickResult ==
    tick([Entry EXCEPT !.ticks_pending = @ - 1,
                       !.timer_id = IF @ = "live" THEN "stale" ELSE @])

\* C1: in test3.py a click places an X piece only while X holds the turn and
\* the AI callback places an O piece only while O holds the turn.
C1_MovesOnlyInTurn ==
    variant = "test3" =>
        /\ (binding = "handle_click" /\ current_player # "X") =>
               \A rc \in AllClicks :
                   handle_click(Entry, rc[1], rc[2], 1).board = board
        /\ (ai_pending > 0 /\ current_player # "O") =>
               \A r \in AiResults : r.board = board

\* C2: in test2.py and test3.py, while a return is pending no handler that
\* can run (a click, a selection outside the stored flips, a tick, the AI
\* callback) changes the board or the active side.
C2_PendingBlocksMoves ==
    (variant \in {"test2", "test3"} /\ pending_return # None) =>
        /\ binding = "handle_click" =>
               \A rc \in AllClicks :
                   LET r == handle_click(Entry, rc[1], rc[2], 1)
                   IN  r.board = board /\ r.current_player = current_player
        /\ binding = "handle_return_click" =>
               \A rc \in AllClicks \ Range(pending_return) :
                   LET r == handle_return_click(Entry, rc[1], rc[2])
                   IN  r.board = board /\ r.current_player = current_player
        /\ ticks_pending > 0 =>
               (TickResult.board = board
                   /\ TickResult.current_player = current_player)
        /\ ai_pending > 0 =>
               \A r \in AiResults :
                   r.board = board /\ r.current_player = current_player

\* The player whose move a click makes: the active side in test.py and
\* test2.py, the human side X in test3.py.
Mover == IF variant = "test3" THEN "X" ELSE current_player

HasMove(b, player) == \E rc \in Cells : rc \in get_valid_moves(b, player)

\* What the end-of-move check leaves behind, for a result r of a handler.
EndOfMoveRan(r) ==
    IF game_over(r.board)
    THEN r.finished /\ r.binding = "unbound"
    ELSE /\ ~r.finished
         /\ r.binding = "handle_click"
         /\ HasMove(r.board, r.current_player)

\* C3: a return selection is handled only while a return is pending; a
\* selection among the stored flips gives exactly that cell to the opponent
\* of the mover, clears the pending state and runs the end-of-move check;
\* any other selection changes nothing.
C3_ReturnSelection ==
    binding = "handle_return_click" =>
        /\ pending_return # None
        /\ \A rc \in AllClicks :
               LET r == handle_return_click(Entry, rc[1], rc[2])
               IN  IF rc \in Range(pending_return)
                   THEN /\ r.board = [board EXCEPT ![rc] = opponent(Mover)]
                        /\ r.pending_return = None
                        /\ r.return_origin = None
                        /\ EndOfMoveRan(r)
                   ELSE r = Entry

C3_Witness ==
    /\ variant = "test2"
    /\ pending_return = None
    /\ log # << >>
    /\ log[1].txt = "move"
    /\ log[1].ret # None
    /\ board[log[1].ret] = opponent(log[1].player)

\* The board a move of player at rc with flips F leaves when cell ret of F
\* (None: no cell) goes back to the opponent.
MovedBoard(b, player, rc, F, ret) ==
    [c \in Cells |->
        IF c = rc THEN player
        ELSE IF c = ret THEN opponent(player)
        ELSE IF c \in Range(F) THEN player
        ELSE b[c]]

\* C4 for one click of test.py: below the threshold nothing is returned, from
\* the threshold on exactly one flipped cell is.
C4_Auto ==
    (variant = "test" /\ binding = "handle_click") =>
        \A rc \in get_valid_moves(board, current_player) :
            LET F == get_flips(board, current_player, rc[1], rc[2])
            IN  \A k \in AllDraws(Len(F)) :
                    LET r == handle_click(Entry, rc[1], rc[2], k)
                    IN  IF Len(F) < RETURN_THRESHOLD
                        THEN /\ r.board = MovedBoard(board, current_player, rc, F, None)
                             /\ r.log[1].ret = None
                        ELSE \E ret \in Range(F) :
                                /\ ret # rc
                                /\ r.board = MovedBoard(board, current_player, rc, F, ret)
                                /\ r.log[1].ret = ret

\* C4 for one click of test2.py and test3.py: a pending return is created
\* from the threshold on and only then, and each selection that resolves it
\* gives back exactly one flipped cell.
C4_Manual ==
    (variant \in {"test2", "test3"} /\ binding = "handle_click"
                                    /\ pending_return = None) =>
        \A rc \in get_valid_moves(board, Mover) :
            LET F == get_flips(board, Mover, rc[1], rc[2])
                r == handle_click(Entry, rc[1], rc[2], 1)
            IN  IF Len(F) < RETURN_THRESHOLD
                THEN /\ r.board = MovedBoard(board, Mover, rc, F, None)
                     /\ r.pending_return = None
                     /\ r.binding # "handle_return_click"
                ELSE /\ r.board = MovedBoard(board, Mover, rc, F, None)
                     /\ r.pending_return = F
                     /\ r.return_origin = rc
                     /\ rc \notin Range(F)
                     /\ r.binding = "handle_return_click"
                     /\ \A ret \in Range(F) :
                            handle_return_click(r, ret[1], ret[2]).board
                                = MovedBoard(board, Mover, rc, F, ret)

\* C4 for the AI of test3.py.
C4_Ai ==
    (variant = "test3" /\ ai_pending > 0) =>
        \A mv \in get_valid_moves(board, "O") :
            LET F == get_flips(board, "O", mv[1], mv[2])
            IN  \A k \in AllDraws(Len(F)) :
                    LET r == ai_move([Entry EXCEPT !.ai_pending = @ - 1], mv, k)
                    IN  IF Len(F) < RETURN_THRESHOLD
                        THEN r.board = MovedBoard(board, "O", mv, F, None)
                        ELSE \E ret \in Range(F) :
                                r.board = MovedBoard(board, "O", mv, F, ret)

\* C4: the return rule in every variant and mode: no return and no pending
\* state below three flips; from three flips on the move ends with exactly
\* one flipped cell given back, so no game ends with a return unresolved.
C4_ReturnRule ==
    /\ C4_Auto
    /\ C4_Manual
    /\ C4_Ai
    /\ finished => pending_return = None

\* The counts of board placed (after placement and flips) and of the boards
\* returned (after the reversion) against those of b, for flips F of player.
C5_CountsOf(b, player, F, placed, returned) ==
    LET n == Len(F)
        opp == opponent(player)
    IN  /\ count(placed, player) = count(b, player) + 1 + n
        /\ count(placed, opp) = count(b, opp) - n
        /\ \A r \in returned :
               /\ count(r, player) = count(b, player) + n
               /\ count(r, opp) = count(b, opp) - (n - 1)

\* C5: piece counts of a legal move with flips F: placing and flipping
\* gives the mover 1 + |F| and takes |F| from the opponent; once the single
\* cell has been given back the mover is up by |F| and the opponent down by
\* |F| - 1.
C5_PieceCounts ==
    /\ (variant = "test" /\ binding = "handle_click") =>
           \A rc \in get_valid_moves(board, current_player) :
               LET F == get_flips(board, current_player, rc[1], rc[2])
                   placed == place_and_flip(board, current_player, rc[1], rc[2], F)
               IN  /\ C5_CountsOf(board, current_player, F, placed,
                          IF Len(F) < RETURN_THRESHOLD THEN {}
                          ELSE {handle_click(Entry, rc[1], rc[2], k).board :
                                   k \in 1 .. Len(F)})
                   /\ Len(F) < RETURN_THRESHOLD =>
                          handle_click(Entry, rc[1], rc[2], 1).board = placed
    /\ (variant \in {"test2", "test3"} /\ binding = "handle_click"
                                       /\ pending_return = None) =>
           \A rc \in get_valid_moves(board, Mover) :
               LET F == get_flips(board, Mover, rc[1], rc[2])
                   r == handle_click(Entry, rc[1], rc[2], 1)
               IN  C5_CountsOf(board, Mover, F, r.board,
                       IF Len(F) < RETURN_THRESHOLD THEN {}
                       ELSE {handle_return_click(r, ret[1], ret[2]).board :
                                ret \in Range(F)})
    /\ (variant = "test3" /\ ai_pending > 0) =>
           \A mv \in get_valid_moves(board, "O") :
               LET F == get_flips(board, "O", mv[1], mv[2])
                   s == [Entry EXCEPT !.ai_pending = @ - 1]
               IN  C5_CountsOf(board, "O", F,
                       IF Len(F) < RETURN_THRESHOLD
                       THEN ai_move(s, mv, 1).board
                       ELSE place_and_flip(board, "O", mv[1], mv[2], F),
                       IF Len(F) < RETURN_THRESHOLD THEN {}
                       ELSE {ai_move(s, mv, k).board : k \in 1 .. Len(F)})

\* A move of test.py of at least three flips has just been played and one
\* cell given back.
C5_Witness ==
    /\ variant = "test"
    /\ log # << >>
    /\ log[1].txt = "move"
    /\ log[1].ret # None
    /\ board[log[1].ret] = opponent(log[1].player)
    /\ board[log[1].pos] = log[1].player

\* The results of the handlers that complete a move of the active side, in
\* the clocked variants.
Completed ==
    IF variant = "test" /\ binding = "handle_click"
    THEN UNION {{handle_click(Entry, rc[1], rc[2], k) :
                    k \in AllDraws(Len(get_flips(board, current_player, rc[1], rc[2])))} :
                rc \in get_valid_moves(board, current_player)}
    ELSE IF variant = "test2" /\ binding = "handle_click"
    THEN {handle_click(Entry, rc[1], rc[2], 1) :
             rc \in {m \in get_valid_moves(board, current_player) :
                        Len(get_flips(board, current_player, m[1], m[2]))
                            < RETURN_THRESHOLD}}
    ELSE IF variant = "test2" /\ binding = "handle_return_click"
    THEN {handle_return_click(Entry, ret[1], ret[2]) : ret \in Range(pending_return)}
    ELSE {}

TurnStarted(r) ==
    /\ ~r.finished
    /\ r.time_left = TURN_SECONDS - 1
    /\ r.timer_label = TURN_SECONDS
    /\ r.ticks_pending = 1
    /\ r.timer_id = "live"

\* C6: after a completed move that does not end the game the turn goes to
\* the opponent when the opponent has a legal move; otherwise a pass is
\* logged and the turn comes back to the mover.  A single pass never ends the
\* game.
C6_EndOfMoveCheck ==
    \A r \in Completed :
        IF game_over(r.board)
        THEN r.finished /\ PassLine \notin Range(r.log)
        ELSE /\ TurnStarted(r)
             /\ IF HasMove(r.board, opponent(current_player))
                THEN /\ r.current_player = opponent(current_player)
                     /\ PassLine \notin Range(r.log)
                ELSE /\ r.current_player = current_player
                     /\ HasMove(r.board, current_player)
                     /\ r.log = << r.log[1], PassLine >>

\* A move has just been followed by a forced pass.
C6_Witness ==
    /\ variant \in {"test", "test2"}
    /\ ~finished
    /\ Len(log) = 2
    /\ log[1].txt = "move"
    /\ log[2] = PassLine
    /\ current_player = log[1].player
    /\ ~HasMove(board, opponent(current_player))

\* C7: when a completed move leaves a board on which neither side has a legal
\* move the game is over at once: no pass is logged, the active side is not
\* switched and the clock is not restarted.
C7_DeadBoardEndsGame ==
    /\ (pending_return = None /\ ~HasMove(board, "X") /\ ~HasMove(board, "O"))
           => finished
    /\ \A r \in Completed :
           (~HasMove(r.board, "X") /\ ~HasMove(r.board, "O")) =>
               /\ r.finished
               /\ r.binding = "unbound"
               /\ Len(r.log) = 1
               /\ r.log[1].txt = "move"
               /\ r.current_player = current_player
               /\ r.time_left = time_left
               /\ r.timer_label = timer_label
               /\ r.ticks_pending = 0
               /\ r.timer_id = "None"

\* A clocked game has just been ended by a move.
C7_Witness ==
    /\ variant \in {"test", "test2"}
    /\ finished
    /\ Len(log) = 1
    /\ log[1].txt = "move"
    /\ ~HasMove(board, "X")
    /\ ~HasMove(board, "O")

\* C8: once the game has ended no click or return selection is delivered, no
\* countdown callback is left, and a late AI callback changes neither the
\* board nor the active side.
C8_GameOverTerminal ==
    finished =>
        /\ binding = "unbound"
        /\ ticks_pending = 0
        /\ timer_id = "None"
        /\ \A r \in (IF ai_pending > 0 THEN AiResults ELSE {}) :
               /\ r.board = board
               /\ r.current_player = current_player
               /\ r.finished

\* A game of test3.py has ended while an AI callback is still scheduled.
C8_Witness ==
    /\ variant = "test3"
    /\ finished
    /\ ai_pending > 0

\* A click the active side may not play: outside the board, on an occupied
\* cell, or without flips.
C10_Rejected(rc) ==
    \/ ~inside(rc[1], rc[2])
    \/ board[rc] # "."
    \/ get_flips(board, current_player, rc[1], rc[2]) = << >>

\* C10: in the clocked variants a click outside the board, on an occupied
\* cell or on a cell with no flips for the active side changes nothing and
\* leaves the countdown alone; make_move writes nothing when there are no
\* flips.
C10_RejectedMove ==
    /\ (variant \in {"test", "test2"} /\ binding = "handle_click") =>
           \A rc \in AllClicks :
               C10_Rejected(rc) => handle_click(Entry, rc[1], rc[2], 1) = Entry
    /\ \A rc \in Cells : \A p \in Players :
           get_flips(board, p, rc[1], rc[2]) = << >> =>
               /\ make_move(board, p, rc[1], rc[2]).board = board
               /\ make_move_return(board, p, rc[1], rc[2], 1).board = board

\* A clocked turn in mid-game with the countdown running, where clicks on
\* occupied cells and on cells without flips are there to be rejected.
C10_Witness ==
    /\ variant \in {"test", "test2"}
    /\ binding = "handle_click"
    /\ ticks_pending = 1
    /\ timer_id = "live"
    /\ time_left < TURN_SECONDS - 1
    /\ pieces(board) > 4
    /\ \E rc \in Cells :
           board[rc] = "." /\ get_flips(board, current_player, rc[1], rc[2]) = << >>

\* A run of one or more pieces of the opponent from rc in direction d, closed
\* by a piece of player.
C9_Brackets(b, player, rc, d) ==
    \E n \in 1 .. (BOARD_SIZE - 2) :
        /\ \A i \in 1 .. n :
               /\ inside(rc[1] + i * d[1], rc[2] + i * d[2])
               /\ b[<<rc[1] + i * d[1], rc[2] + i * d[2]>>] = opponent(player)
        /\ inside(rc[1] + (n + 1) * d[1], rc[2] + (n + 1) * d[2])
        /\ b[<<rc[1] + (n + 1) * d[1], rc[2] + (n + 1) * d[2]>>] = player

C9_Legal(b, player) ==
    \E rc \in Cells :
        /\ b[rc] = "."
        /\ \E d \in ({-1, 0, 1} \X {-1, 0, 1}) \ {<<0, 0>>} :
               C9_Brackets(b, player, rc, d)

\* C9: game_over is true exactly when the board has no empty cell, or there
\* is no X, or there is no O, or neither side has a legal move.
C9_GameOverExactly ==
    game_over(board) <=>
        \/ \A rc \in Cells : board[rc] # "."
        \/ \A rc \in Cells : board[rc] # "X"
        \/ \A rc \in Cells : board[rc] # "O"
        \/ ~C9_Legal(board, "X") /\ ~C9_Legal(board, "O")

\* The end of a move has found the game over on a board that has empty cells
\* and pieces of both colours.
C9_Witness ==
    /\ finished
    /\ \E rc \in Cells : board[rc] = "."
    /\ \E rc \in Cells : board[rc] = "X"
    /\ \E rc \in Cells : board[rc] = "O"

---------------------------------------------------------------------------
(* The clock (test.py, test2.py) *)

\* The tick that finds the countdown at 0 is about to fire.
TimeoutDue == variant \in {"test", "test2"} /\ ticks_pending > 0 /\ time_left = 0

\* C11: when the countdown reaches 0 and the active side has budget left,
\* exactly one extension of that side is consumed, the countdown restarts at
\* 60 (shown, then ticking at 59) and the side keeps the turn; a tick logs
\* PASS only when the countdown is at 0 and the active side's budget is 0.
C11_AutoExtension ==
    (variant \in {"test", "test2"} /\ ticks_pending > 0) =>
        LET r == TickResult
            p == current_player
        IN  /\ (time_left = 0 /\ extensions[p] > 0) =>
                   /\ r.extensions = [extensions EXCEPT ![p] = @ - 1]
                   /\ r.timer_label = TURN_SECONDS
                   /\ r.time_left = TURN_SECONDS - 1
                   /\ r.ticks_pending = 1
                   /\ r.current_player = p
                   /\ r.board = board
                   /\ r.log = << >>
                   /\ ~r.finished
            /\ PassLine \in Range(r.log) =>
                   (time_left = 0 /\ extensions[p] = 0)

\* X has sat through its first turn until all three extensions were gone and
\* still holds the turn.
C11_Witness ==
    /\ variant \in {"test", "test2"}
    /\ pieces(board) = 4
    /\ current_player = "X"
    /\ log = << >>
    /\ extensions = [q \in Players |-> IF q = "X" THEN 0 ELSE INITIAL_EXTENSIONS]
    /\ timer_label = TURN_SECONDS
    /\ time_left = TURN_SECONDS - 1

\* C12 as stated: a timeout with no budget left logs PASS, leaves the board
\* alone and makes the opponent the active side.
C12_TimeoutGivesOpponentTurn ==
    (TimeoutDue /\ extensions[current_player] = 0) =>
        /\ TickResult.board = board
        /\ TickResult.log[1] = PassLine
        /\ TickResult.current_player = opponent(current_player)

\* C12, amended: a timeout with no budget left logs PASS whether or not the
\* side has a legal move, leaves board and budgets alone and goes through the
\* pass handling: the opponent gets the turn when it has a legal move;
\* when it has none a second PASS is logged and the turn comes back.
C12_TimeoutPass ==
    (TimeoutDue /\ extensions[current_player] = 0) =>
        LET r == TickResult
            p == current_player
        IN  /\ r.board = board
            /\ r.extensions = extensions
            /\ IF HasMove(board, opponent(p))
               THEN /\ r.log = << PassLine >>
                    /\ r.current_player = opponent(p)
                    /\ TurnStarted(r)
               ELSE /\ r.log = << PassLine, PassLine >>
                    /\ r.current_player = p
                    /\ IF HasMove(board, p) THEN TurnStarted(r) ELSE r.finished

\* A side that had legal moves has just lost its turn to the clock.
C12_Witness ==
    /\ variant \in {"test", "test2"}
    /\ log = << PassLine >>
    /\ ~finished
    /\ extensions[opponent(current_player)] = 0
    /\ HasMove(board, opponent(current_player))
    /\ timer_label = TURN_SECONDS

\* C13: the extension button changes state only while the active side's move
\* is awaited, that side has budget left and the remaining time is below
\* 120; it then takes one extension of that side and sets the remaining time
\* to min(old + 60, 120).  With no budget, at 120, while a return selection
\* is awaited or after the game has ended it changes nothing.
C13_ManualExtension ==
    variant \in {"test", "test2"} =>
        LET r == use_extension(Entry)
            p == current_player
            t == time_left + TURN_SECONDS
        IN  IF /\ binding = "handle_click"
               /\ ~finished
               /\ extensions[p] > 0
               /\ time_left < MAX_SECONDS
            THEN r = [Entry EXCEPT !.extensions[p] = @ - 1,
                                   !.time_left = IF t > MAX_SECONDS
                                                 THEN MAX_SECONDS ELSE t]
            ELSE r = Entry

\* C14: each budget starts at 3, stays within 0..3 and never increases,
\* whatever ticks, timeouts, extension requests and moves occur.
C14_BudgetRange ==
    /\ \A p \in Players : extensions[p] = INITIAL_EXTENSIONS
    /\ [](\A p \in Players : extensions[p] \in 0 .. INITIAL_EXTENSIONS)
    /\ [][\A p \in Players : extensions'[p] <= extensions[p]]_vars

\* Both budgets have been used up and the countdown stands at 0 again.
C14_Witness ==
    /\ extensions["X"] = 0
    /\ extensions["O"] = 0
    /\ time_left = 0

\* C15: the remaining time stays within 0..120, whatever ticks, automatic
\* extensions and extension requests occur.
C15_ClockRange == time_left \in 0 .. MAX_SECONDS

\* The button has been pressed twice in a row: the clock stands at the cap
\* with two extensions gone, where a further request is ignored.
C15_Witness ==
    /\ time_left = MAX_SECONDS
    /\ extensions[current_player] = INITIAL_EXTENSIONS - 2
    /\ use_extension(Entry) = Entry

\* A handler has just run start_turn: a move was completed, or the turn was
\* passed by a timeout without budget.
C16_NewTurn ==
    /\ ~finished'
    /\ \/ board' # board /\ pending_return' = None
       \/ current_player' # current_player
       \/ TimeoutDue /\ extensions[current_player] = 0 /\ time_left' # 0

\* C16: every step into a new turn (after a move, a forced pass or a timeout
\* pass) sets the countdown to 60, whatever it was and whatever time the
\* extensions had bought, and leaves both budgets as they were.
C16_TurnResetsClock ==
    [][C16_NewTurn =>
          /\ timer_label' = TURN_SECONDS
          /\ time_left' = TURN_SECONDS - 1
          /\ ticks_pending' = 1
          /\ extensions' = extensions]_vars

\* O's first turn has started after X had used two of its extensions before
\* moving: the countdown is back at 60 and the budgets are what they were.
C16_Witness ==
    /\ current_player = "O"
    /\ pieces(board) = 5
    /\ log # << >>
    /\ log[1].txt = "move"
    /\ extensions["X"] = INITIAL_EXTENSIONS - 2
    /\ extensions["O"] = INITIAL_EXTENSIONS
    /\ timer_label = TURN_SECONDS
    /\ time_left = TURN_SECONDS - 1

---------------------------------------------------------------------------
(* The opening position and the flips *)

\* Black is X, the side that moves first; White is O.
C17_Start ==
    [rc \in Cells |->
        IF rc \in {<<3, 3>>, <<4, 4>>} THEN "X"
        ELSE IF rc \in {<<3, 4>>, <<4, 3>>} THEN "O"
        ELSE "."]

\* C17: a session starts with Black on (3,3) and (4,4), White on (3,4) and
\* (4,3), every other cell empty and Black to move, and stays so until the
\* first move or pass is logged.
C17_NewSession ==
    /\ board = C17_Start
    /\ current_player = "X"
    /\ [](log = << >> => (board = C17_Start /\ current_player = "X"))

\* The session has been constructed and its first turn has started.
C17_Witness ==
    /\ log = << >>
    /\ binding = "handle_click"
    /\ count_pieces(board) = <<2, 2>>
    /\ pieces(board) = 4
    /\ current_player = "X"
    /\ elapsed = 0

\* The result of the click on rc in a session where nothing has been played.
C18_FirstClick(rc) == handle_click(Entry, rc[1], rc[2], 1)

\* C18 as stated: on the opening position Black's (2,3) is accepted, flips
\* exactly (3,3), leaves Black 4 pieces and White 1 and triggers no return.
C18_OpeningAtTwoThree ==
    (log = << >> /\ binding = "handle_click") =>
        LET r == C18_FirstClick(<<2, 3>>)
        IN  /\ r.board = [board EXCEPT ![<<2, 3>>] = "X", ![<<3, 3>>] = "X"]
            /\ count_pieces(r.board) = <<4, 1>>
            /\ r.pending_return = None

\* C18, amended: on the opening position Black's (2,4) is accepted, flips
\* exactly (3,4), leaves Black 4 pieces and White 1 and triggers no return;
\* (2,3) is rejected, its only neighbour in line being Black's own (3,3).
C18_OpeningAtTwoFour ==
    (log = << >> /\ binding = "handle_click") =>
        LET r == C18_FirstClick(<<2, 4>>)
        IN  /\ get_flips(board, "X", 2, 4) = << <<3, 4>> >>
            /\ r.board = [board EXCEPT ![<<2, 4>>] = "X", ![<<3, 4>>] = "X"]
            /\ count_pieces(r.board) = <<4, 1>>
            /\ r.pending_return = None
            /\ r.binding = "handle_click"
            /\ r.log = << MoveLine("X", <<2, 4>>, None) >>
            /\ get_flips(board, "X", 2, 3) = << >>
            /\ C18_FirstClick(<<2, 3>>) = Entry

\* Black has opened with (2,4).
C18_Witness ==
    /\ log = << MoveLine("X", <<2, 4>>, None) >>
    /\ board = [C17_Start EXCEPT ![<<2, 4>>] = "X", ![<<3, 4>>] = "X"]
    /\ count_pieces(board) = <<4, 1>>
    /\ pending_return = None

\* The cell i steps from rc in direction d.
C19_Step(rc, d, i) == <<rc[1] + i * d[1], rc[2] + i * d[2]>>

\* The length of the maximal run of pieces of colour opp that starts next to
\* rc in direction d.
C19_RunLength(b, opp, rc, d) ==
    CHOOSE n \in 0 .. BOARD_SIZE :
        /\ \A i \in 1 .. n :
               /\ inside(C19_Step(rc, d, i)[1], C19_Step(rc, d, i)[2])
               /\ b[C19_Step(rc, d, i)] = opp
        /\ ~ (/\ inside(C19_Step(rc, d, n + 1)[1], C19_Step(rc, d, n + 1)[2])
              /\ b[C19_Step(rc, d, n + 1)] = opp)

\* The n cells from rc in direction d hold opponent pieces and the next cell
\* is inside the board and holds a piece of side.
C19_Closed(b, side, rc, d, n) ==
    /\ \A i \in 1 .. n :
           /\ inside(C19_Step(rc, d, i)[1], C19_Step(rc, d, i)[2])
           /\ b[C19_Step(rc, d, i)] = opponent(side)
    /\ inside(C19_Step(rc, d, n + 1)[1], C19_Step(rc, d, n + 1)[2])
    /\ b[C19_Step(rc, d, n + 1)] = side

\* What direction d contributes: the run next to rc, when it is not empty
\* and a piece of side ends it inside the board.
C19_Contribution(b, side, rc, d) ==
    IF ~inside(rc[1] + d[1], rc[2] + d[2])
    THEN {}
    ELSE IF b[<<rc[1] + d[1], rc[2] + d[2]>>] # opponent(side)
    THEN {}
    ELSE IF \E n \in 1 .. (BOARD_SIZE - 2) : C19_Closed(b, side, rc, d, n)
    THEN {C19_Step(rc, d, i) :
             i \in 1 .. (CHOOSE n \in 1 .. (BOARD_SIZE - 2) :
                            C19_Closed(b, side, rc, d, n))}
    ELSE {}

C19_Directions == ({-1, 0, 1} \X {-1, 0, 1}) \ {<<0, 0>>}

\* C19: get_flips(side, r, c) lists exactly the cells of the maximal runs of
\* opponent pieces that start next to (r,c) in the eight directions and are
\* ended inside the board by a piece of side; it lists no cell twice, never
\* (r,c), and only cells that hold an opponent piece.
C19_FlipsExactly ==
    \A side \in Players : \A rc \in Cells :
        \A F \in {get_flips(board, side, rc[1], rc[2])} :
            /\ Range(F) = UNION {C19_Contribution(board, side, rc, d) :
                                    d \in C19_Directions}
            /\ Cardinality(Range(F)) = Len(F)
            /\ rc \notin Range(F)
            /\ \A x \in Range(F) : board[x] = opponent(side)

\* A turn has started on a board where some cell flips along two directions
\* at once and some run of opponent pieces next to an empty cell is not
\* closed.
C19_Witness ==
    /\ ticks_pending = 1
    /\ \E rc \in Cells : \E d1, d2 \in C19_Directions :
           /\ d1 # d2
           /\ board[rc] = "."
           /\ C19_Contribution(board, current_player, rc, d1) # {}
           /\ C19_Contribution(board, current_player, rc, d2) # {}
    /\ \E rc \in Cells : \E d \in C19_Directions :
           /\ board[rc] = "."
           /\ C19_RunLength(board, opponent(current_player), rc, d) >= 2
           /\ C19_Contribution(board, current_player, rc, d) = {}

\* C20: on a board that a rotation by 180 degrees leaves unchanged, the flips
\* of a side at the image of a cell are the images of its flips at the cell,
\* and so the legal moves of a side are the images of its legal moves.
C20_PointSymmetry ==
    (\A rc \in Cells : board[rotate(rc)] = board[rc]) =>
        \A side \in Players :
            /\ \A rc \in Cells :
                   Range(get_flips(board, side, rotate(rc)[1], rotate(rc)[2]))
                       = {rotate(x) : x \in Range(get_flips(board, side, rc[1], rc[2]))}
            /\ get_valid_moves(board, side)
                   = {rotate(rc) : rc \in get_valid_moves(board, side)}

\* A turn has started on a symmetric board that is not the opening position
\* and on which the side to move flips at least two cells somewhere.
C20_Witness ==
    /\ \A rc \in Cells : board[rotate(rc)] = board[rc]
    /\ ticks_pending = 1
    /\ pieces(board) > 4
    /\ \E rc \in get_valid_moves(board, current_player) :
           Len(get_flips(board, current_player, rc[1], rc[2])) >= 2

\* C21: the AI callback of test3.py places its piece on a legal move of O
\* and nowhere else, so on the single legal move when there is exactly one;
\* when O has no legal move it places nothing and logs PASS.
C21_RandomAgent ==
    (variant = "test3" /\ ai_pending > 0) =>
        \A moves \in {get_valid_moves(board, "O")} :
            \A r \in AiResults :
                IF is_empty(moves)
                THEN /\ r.board = board
                     /\ r.log # << >>
                     /\ r.log[1] = PassLine
                ELSE /\ r.log[1].txt = "move"
                     /\ r.log[1].player = "O"
                     /\ r.log[1].pos \in moves
                     /\ {rc \in Cells : board[rc] = "." /\ r.board[rc] # "."}
                            = {r.log[1].pos}
                     /\ r.board[r.log[1].pos] = "O"
                     /\ PassLine # r.log[1]
                     /\ Cardinality(moves) = 1 => moves = {r.log[1].pos}

\* The AI has moved, X could not answer, and the callback is scheduled again
\* with exactly one legal move for O.
C21_Witness ==
    /\ variant = "test3"
    /\ ai_pending > 0
    /\ ~finished
    /\ Len(log) = 2
    /\ log[1].txt = "move"
    /\ log[1].player = "O"
    /\ log[2] = PassLine
    /\ Cardinality(get_valid_moves(board, "O")) = 1

\* The results of the tick callback once the active side has let the clock
\* run down to 0 with e extensions left, for each e it can still come to.
RunDownResults ==
    {tick([Entry EXCEPT !.ticks_pending = @ - 1,
                        !.timer_id = "stale",
                        !.time_left = 0,
                        !.extensions[current_player] = e]) :
        e \in 0 .. extensions[current_player]}

\* C22: in test.py and test2.py at most one tick callback is scheduled, and
\* it is the one timer_id names; none is scheduled once a move has been
\* accepted until the next turn starts (so none while a return is pending)
\* and none after the game has ended, so a tick fires only in the turn that
\* scheduled it.
C22_TimerResource ==
    variant \in {"test", "test2"} =>
        /\ ticks_pending <= 1
        /\ ticks_pending = 1 => (timer_id = "live" /\ ~finished /\ pending_return = None)
        /\ pending_return # None => ticks_pending = 0
        /\ finished => ticks_pending = 0
        /\ binding = "handle_click" => stop_timer(Entry).ticks_pending = 0
        /\ \A r \in Completed :
               /\ r.ticks_pending <= 1
               /\ r.ticks_pending = 1 => r.timer_id = "live"
               /\ r.finished => r.ticks_pending = 0
        /\ ticks_pending > 0 =>
               \A r \in {TickResult} \cup RunDownResults :
                   /\ r.ticks_pending <= 1
                   /\ r.ticks_pending = 1 => r.timer_id = "live"
                   /\ r.finished => r.ticks_pending = 0

\* A move of test2.py has been accepted and waits for its return selection:
\* the countdown is cancelled and no turn has started.
C22_Witness ==
    /\ variant = "test2"
    /\ ~finished
    /\ pending_return # None
    /\ binding = "handle_return_click"
    /\ ticks_pending = 0
    /\ timer_id = "None"

\* The results of the handlers that can place a piece in the current state:
\* a click while handle_click is bound, the AI callback while it is
\* scheduled.
PlacingResults ==
    (IF binding = "handle_click"
     THEN UNION {{handle_click(Entry, rc[1], rc[2], k) :
                     k \in (IF variant = "test"
                            THEN AllDraws(Len(get_flips(board, current_player, rc[1], rc[2])))
                            ELSE {1})} :
                 rc \in Cells}
     ELSE {})
        \cup (IF ai_pending > 0 THEN AiResults ELSE {})

\* The last handler that logged anything completed a move and no PASS has
\* been logged since.
C23_NoPassSinceMove ==
    /\ log # << >>
    /\ log[1].txt = "move"
    /\ PassLine \notin Range(log)
    /\ pending_return = None

\* The sides that the handlers able to run in the current state place a piece
\* for.
C23_NextPlacers ==
    {r.board[rc] : rc \in {c \in Cells : board[c] = "."}, r \in PlacingResults}
        \ {"."}

\* C23, clocked variants: after a move of a side with no PASS the turn is the
\* other side's and only the other side can place the next piece; a forced
\* pass is for the other side and gives the turn back to the mover.
C23_ClockedAlternation ==
    (variant \in {"test", "test2"} /\ log # << >> /\ log[1].txt = "move"
                                   /\ pending_return = None /\ ~finished) =>
        IF PassLine \notin Range(log)
        THEN /\ current_player = opponent(log[1].player)
             /\ C23_NextPlacers \subseteq {opponent(log[1].player)}
        ELSE /\ current_player = log[1].player
             /\ ~HasMove(board, opponent(log[1].player))

\* C23: in every variant, while no PASS has been logged since the last
\* accepted move, no handler places a piece for the side that made that move.
C23_Alternation ==
    C23_NoPassSinceMove => log[1].player \notin C23_NextPlacers

\* C24: in test.py and test2.py, while the clock counts for a side that side
\* has a legal move on the board, whether the turn was started by the
\* constructor, after a move, after a forced pass or after a timeout pass.
C24_TurnHasMove ==
    variant \in {"test", "test2"} =>
        /\ ticks_pending > 0 => HasMove(board, current_player)
        /\ ticks_pending > 0 =>
               \A r \in {TickResult} \cup RunDownResults :
                   r.ticks_pending > 0 => HasMove(r.board, r.current_player)

\* A timeout has passed the turn, the other side had no move either, and the
\* clock counts again for the side that timed out.
C24_Witness ==
    /\ variant \in {"test", "test2"}
    /\ ~finished
    /\ log = << PassLine, PassLine >>
    /\ ticks_pending = 1
    /\ time_left = TURN_SECONDS - 1
    /\ HasMove(board, current_player)

\* C25: on the boards of whole games played by the rules game_over is true
\* exactly when neither side has a legal move; on a full board and on a
\* board without a piece of one side neither side has one.
C25_GameOverIffNoMoves ==
    /\ game_over(board) <=> (~HasMove(board, "X") /\ ~HasMove(board, "O"))
    /\ (\/ pieces(board) = BOARD_SIZE * BOARD_SIZE
        \/ count(board, "X") = 0
        \/ count(board, "O") = 0)
           => (~HasMove(board, "X") /\ ~HasMove(board, "O"))

\* The sixtieth move of a game has filled the board and ended the game.
C25_Witness ==
    /\ pieces(board) = BOARD_SIZE * BOARD_SIZE
    /\ count(board, "X") > 0
    /\ count(board, "O") > 0
    /\ game_over(board)
    /\ finished
    /\ log # << >>
    /\ log[Len(log)].txt = "move"

\* No occupied cell of b is empty in c.
C26_Kept(b, c) == \A rc \in Cells : b[rc] # "." => c[rc] # "."

\* The board c holds the pieces of b and one more.
C26_OneMore(b, c) == C26_Kept(b, c) /\ pieces(c) = pieces(b) + 1

\* C26 for the handlers that can run in the current state: a click or an AI
\* callback either leaves the board as it is or adds exactly one piece, the
\* return selection that completes a move keeps that count, and a pass, a
\* timeout, a tick and an extension request leave the board unchanged.
C26_Handlers ==
    /\ \A r \in PlacingResults :
           /\ r.board = board \/ C26_OneMore(board, r.board)
           /\ (pending_return = None /\ r.pending_return # None) =>
                  \A ret \in Range(r.pending_return) :
                      C26_OneMore(board, handle_return_click(r, ret[1], ret[2]).board)
    /\ binding = "handle_click" =>
           \A rc \in get_valid_moves(board, Mover) :
               \A r \in {handle_click(Entry, rc[1], rc[2], 1)} :
                   pending_return = None => C26_OneMore(board, r.board)
    /\ (ai_pending > 0 /\ HasMove(board, "O")) =>
           \A r \in AiResults : C26_OneMore(board, r.board)
    /\ binding = "handle_return_click" =>
           \A rc \in AllClicks :
               \A r \in {handle_return_click(Entry, rc[1], rc[2])} :
                   C26_Kept(board, r.board) /\ pieces(r.board) = pieces(board)
    /\ switch_player(Entry).board = board
    /\ variant \in {"test", "test2"} =>
           /\ handle_timeout(Entry).board = board
           /\ use_extension(Entry).board = board
           /\ ticks_pending > 0 =>
                  \A r \in {TickResult} \cup RunDownResults : r.board = board

\* C26: every completed move adds exactly one piece and empties no cell;
\* passes, timeouts, ticks and extension requests leave the board unchanged;
\* so each step of a game adds at most one piece to the 4 of the start, and
\* no more than 60 moves are accepted.
C26_BoardGrowsByOne ==
    /\ []C26_Handlers
    /\ [](pieces(board) - 4 <= BOARD_SIZE * BOARD_SIZE - 4)
    /\ [][/\ C26_Kept(board, board')
          /\ pieces(board') \in {pieces(board), pieces(board) + 1}
          /\ (pieces(board') = pieces(board) /\ pending_return = None)
                 => board' = board]_vars

\* The AI of test3.py has completed the 58th move of a game, with a return.
C26_Witness ==
    /\ variant = "test3"
    /\ pieces(board) = 4 + 58
    /\ log # << >>
    /\ log[1].txt = "move"
    /\ log[1].player = "O"
    /\ log[1].ret # None
    /\ board[log[1].ret] = "X"

===========================================================================
